---- MODULE Spec2Model ----
(***************************************************************************)
(* The to-do API server (express + mongoose + jsonwebtoken + bcryptjs):    *)
(* the credential store, the task store, the token codec and the six       *)
(* routes /api/register, /api/login and GET/POST/PUT/DELETE /api/todos.    *)
(*                                                                         *)
(* Every route is written as an operator that gives the SET of outcomes    *)
(* the handler can produce from the current stores for one request: an     *)
(* outcome is the response together with the store the handler leaves.     *)
(* An outcome set has more than one element where the handler's result     *)
(* depends on something the request does not fix: whether a store call     *)
(* throws, and the order the store gives to tasks with equal createdAt.    *)
(* A request arrives (Receive) and its handler then runs on it; the        *)
(* handler's action picks one outcome.                                     *)
(*                                                                         *)
(* The module also holds the startup of the server process (connectDB and  *)
(* app.listen) and the two stateful components of the client, AuthProvider *)
(* and TodoApp, whose calls the server's handlers answer.  Each part has   *)
(* its own specification; the variables of the other parts stay as its     *)
(* initial state sets them.                                                *)
(***************************************************************************)
EXTENDS Integers, Sequences, FiniteSets, TLC

VARIABLES
    users,      \* the User collection: identities, the email lowercased
    pending,    \* register requests past their existence check, awaiting save
    todos,      \* the Todo collection
    nextId,     \* the _id the next saved Todo gets
    now,        \* Date.now(), in hours
    req,        \* the request whose handler runs next, or Idle
    \* the server process at startup
    env,        \* process.env: whether MONGODB_URI is set, and PORT
    connectDB,  \* where connectDB stands: the await it is at, or how it ended
    attempts,   \* the mongoose.connect calls made so far, each with its result
    console,    \* the lines written by console.log and console.error
    exitCode,   \* the code given to process.exit, or Null while the process runs
    listening,  \* the callback of app.listen has run
    \* the browser: AuthProvider (AuthContext) and TodoApp (App.js)
    tokenState,     \* useState token of AuthProvider
    userState,      \* useState user of AuthProvider
    loadingState,   \* useState loading of AuthProvider
    localStorage,   \* localStorage.getItem('token')
    Authorization,  \* axios.defaults.headers.common['Authorization']
    tokenEffect,    \* the effect on [token] is scheduled and has not run
    authCalls,      \* the login and register calls awaiting their response
    todosState,     \* useState todos of TodoApp
    errorState,     \* useState error of TodoApp
    todosLoading,   \* useState loading of TodoApp
    todoCalls,      \* the axios calls of TodoApp awaiting their response
    remarks         \* history: a call of TodoApp failed, a task was added while the list loaded

server == <<users, pending, todos, nextId, now, req>>
startup == <<env, connectDB, attempts, console, exitCode, listening>>
authProvider == <<tokenState, userState, loadingState, localStorage, Authorization, tokenEffect, authCalls>>
todoApp == <<todosState, errorState, todosLoading, todoCalls, remarks>>
vars == <<server, startup, authProvider, todoApp>>

----------------------------------------------------------------------------
(* Bounds of the model *)

MaxTodoIds == 2
MaxInflight == 2

(* expiresIn: '24h'; time is counted in hours *)
TokenTTL == 24

----------------------------------------------------------------------------
(* Values *)

Null == "null"
UserIdOf(n) == IF n = 1 THEN "u1" ELSE IF n = 2 THEN "u2" ELSE IF n = 3 THEN "u3" ELSE "u4"
TodoIds == 1..MaxTodoIds
(* The instants at which requests are served: when the first tokens are   *)
(* issued, and when those tokens expire                                    *)
Clock == {0, TokenTTL}

(* An email is a sequence of characters; String.toLowerCase per character *)
LowerChar(c) == IF c = "A" THEN "a" ELSE IF c = "B" THEN "b" ELSE c
toLowerCase(s) == [i \in DOMAIN s |-> LowerChar(s[i])]
Emails == {<<"a">>, <<"A">>, <<"b">>}
EmptyString == <<>>
Passwords == {"p", "q"}
Names == {"n", "m"}
Titles == {"x"}

(* bcrypt.hash(password, 10) and bcrypt.compare(password, hash) *)
bcrypt_hash(password) == <<"bcrypt", password>>
bcrypt_compare(password, hash) == hash = bcrypt_hash(password)

(* A segment of the Authorization header after split(' '): the scheme word, *)
(* the empty string, a string that is no JWT, or a JWT with its payload and  *)
(* the key that signed it.                                                   *)
Segment(kind, uid, iat) == [kind |-> kind, userId |-> uid, iat |-> iat]
Bearer == Segment("Bearer", Null, 0)
EmptySegment == Segment("empty", Null, 0)
Garbage == Segment("garbage", Null, 0)
Undefined == Segment("undefined", Null, 0)
jwt_sign(uid, t) == Segment("signed", uid, t)
Forged(uid, t) == Segment("forged", uid, t)

(* The Authorization header: absent, or the list of its segments *)
NoHeader == [present |-> FALSE, segs |-> <<>>]
Header(segs) == [present |-> TRUE, segs |-> segs]

(* authHeader && authHeader.split(' ')[1] *)
TokenOf(authHeader) ==
    IF ~authHeader.present THEN Undefined
    ELSE IF Len(authHeader.segs) >= 2 THEN authHeader.segs[2]
    ELSE Undefined

(* if (token): undefined and the empty string are falsy *)
Truthy(token) == token.kind \notin {"undefined", "empty"}

(* A verify that does not check the signature *)
jwt_verify_at_AnySignature(token, t) ==
    /\ token.kind \in {"signed", "forged"}
    /\ t < token.iat + TokenTTL

(* A verify that still accepts the token at its expiry instant *)
jwt_verify_at_ValidAtExpiry(token, t) ==
    /\ token.kind = "signed"
    /\ t <= token.iat + TokenTTL

(* jwt.verify(token, secret) at time t returns the payload or throws: it  *)
(* throws on a string that is no JWT, on a signature the secret did not    *)
(* make, and from the expiry instant on                                    *)
jwt_verify_at(token, t) ==
    /\ token.kind = "signed"
    /\ t < token.iat + TokenTTL

jwt_verify_ok(token) == jwt_verify_at(token, now)

----------------------------------------------------------------------------
(* Responses *)

NoUser == [id |-> Null, email |-> EmptyString, name |-> ""]

Response(status, message, docs, token, user) ==
    [status |-> status, message |-> message, docs |-> docs,
     token |-> token, user |-> user]
Message(status, message) == Response(status, message, <<>>, Undefined, NoUser)
Docs(status, docs) == Response(status, "", docs, Undefined, NoUser)

(* error.message of a failed store call *)
StoreError == "store error"

(* What one request does: the response, the stores it leaves, and the      *)
(* store calls it made in order, each "ok" (returned) or "throws"          *)
Outcome(resp, store, calls) == [resp |-> resp, todos |-> store, calls |-> calls]

(* The outcomes S of the code that runs after the store calls `calls` *)
After(calls, S) == {[o EXCEPT !.calls = calls \o @] : o \in S}

----------------------------------------------------------------------------
(* Task store *)

Todo(id, title, completed, userId, createdAt) ==
    [id |-> id, title |-> title, completed |-> completed,
     userId |-> userId, createdAt |-> createdAt]

(* A sort that puts the oldest first *)
SortedByCreatedAtAsc(S) ==
    {q \in [1..Cardinality(S) -> S] :
        /\ \A i, j \in DOMAIN q : i # j => q[i] # q[j]
        /\ \A i, j \in DOMAIN q : i < j => q[i].createdAt <= q[j].createdAt}

(* .sort({ createdAt: -1 }): every order of S with createdAt descending;  *)
(* the store fixes no order among equal createdAt                         *)
SortedByCreatedAtDesc(S) ==
    {q \in [1..Cardinality(S) -> S] :
        /\ \A i, j \in DOMAIN q : i # j => q[i] # q[j]
        /\ \A i, j \in DOMAIN q : i < j => q[i].createdAt >= q[j].createdAt}

(* The query filters *)
FindAll == todos
FindByUser(uid) == {t \in todos : t.userId = uid}
ByIdOwned_OwnerOnly(id, uid) == {t \in todos : t.id = id /\ t.userId = uid}
ByIdOwned(id, uid) == {t \in todos : t.id = id /\ (t.userId = uid \/ t.userId = Null)}
ById(id) == {t \in todos : t.id = id}

----------------------------------------------------------------------------
(* Request bodies: a JSON object is a record that has a key or has not *)

Has(body, key) == key \in DOMAIN body
EmptyBody == [k \in {} |-> ""]

(* One Todo.find(filter).sort(...) awaited: it returns or it throws *)
Find(hit) == {Outcome(Docs(200, q), todos, <<"ok">>) : q \in SortedByCreatedAtDesc(hit)}
Thrown == Outcome(Message(500, StoreError), todos, <<"throws">>)

(* A list that gives a caller without a token the unowned tasks only *)
GetTodos_NoTokenSeesUnowned(authHeader) ==
    LET token == TokenOf(authHeader) IN
    IF Truthy(token)
    THEN IF jwt_verify_ok(token)
         THEN Find(FindByUser(token.userId))
                 \cup After(<<"throws">>, Find(FindAll) \cup {Thrown})
         ELSE Find(FindAll) \cup {Thrown}
    ELSE Find(FindByUser(Null)) \cup {Thrown}

(* GET /api/todos *)
GetTodos(authHeader) ==
    LET token == TokenOf(authHeader) IN
    IF Truthy(token)
    THEN IF jwt_verify_ok(token)
         THEN \* the filtered find returns, or it throws inside the inner try,
              \* whose catch awaits the unfiltered find
              Find(FindByUser(token.userId))
                 \cup After(<<"throws">>, Find(FindAll) \cup {Thrown})
         ELSE Find(FindAll) \cup {Thrown}
    ELSE Find(FindAll) \cup {Thrown}

(* A create that reads the payload of the token without verifying it *)
CreatorOf_TrustsPayload(authHeader) ==
    LET token == TokenOf(authHeader) IN
    IF Truthy(token) THEN token.userId ELSE Null

(* POST /api/todos *)
CreatorOf(authHeader) ==
    LET token == TokenOf(authHeader) IN
    IF Truthy(token) /\ jwt_verify_ok(token) THEN token.userId ELSE Null

(* A create that saves the task before it checks the title *)
CreateTodo_SavesThenChecks(authHeader, body) ==
    LET title == IF Has(body, "title") THEN body.title ELSE ""
        completed == IF Has(body, "completed") THEN body.completed ELSE FALSE
        todo == Todo(nextId, title, completed, CreatorOf(authHeader), now)
    IN  IF ~Has(body, "title") \/ body.title = ""
        THEN {Outcome(Message(400, "Title is required"), todos \cup {todo}, <<"ok">>)}
        ELSE {Outcome(Docs(201, <<todo>>), todos \cup {todo}, <<"ok">>), Thrown}

CreateTodo(authHeader, body) ==
    LET title == IF Has(body, "title") THEN body.title ELSE ""
        completed == IF Has(body, "completed") THEN body.completed ELSE FALSE
        todo == Todo(nextId, title, completed, CreatorOf(authHeader), now)
    IN  IF ~Has(body, "title") \/ body.title = ""
        THEN {Outcome(Message(400, "Title is required"), todos, <<>>)}
        ELSE {Outcome(Docs(201, <<todo>>), todos \cup {todo}, <<"ok">>), Thrown}

(* An update that replaces the document: a field not given gets its default *)
ApplyUpdate_Replaces(t, body) ==
    [t EXCEPT !.title = IF Has(body, "title") THEN body.title ELSE "",
              !.completed = IF Has(body, "completed") THEN body.completed ELSE FALSE]

(* PUT /api/todos/:id *)
ApplyUpdate(t, body) ==
    [t EXCEPT !.title = IF Has(body, "title") THEN body.title ELSE @,
              !.completed = IF Has(body, "completed") THEN body.completed ELSE @]

(* findOneAndUpdate(filter, updateData, { new: true }) that returns *)
FindOneAndUpdate(hit, body) ==
    IF hit = {}
    THEN Outcome(Message(404, "Todo not found"), todos, <<"ok">>)
    ELSE LET t == CHOOSE x \in hit : TRUE
             u == ApplyUpdate(t, body)
         IN  Outcome(Docs(200, <<u>>), (todos \ {t}) \cup {u}, <<"ok">>)

UpdateTodo(authHeader, id, body) ==
    LET token == TokenOf(authHeader) IN
    IF Truthy(token)
    THEN IF jwt_verify_ok(token)
         THEN {FindOneAndUpdate(ByIdOwned(id, token.userId), body)}
                 \cup After(<<"throws">>, {FindOneAndUpdate(ById(id), body), Thrown})
         ELSE {FindOneAndUpdate(ById(id), body), Thrown}
    ELSE {FindOneAndUpdate(ById(id), body), Thrown}

(* DELETE /api/todos/:id *)
FindOneAndDelete(hit) ==
    IF hit = {}
    THEN Outcome(Message(404, "Todo not found"), todos, <<"ok">>)
    ELSE Outcome(Message(200, "Todo deleted successfully"), todos \ hit, <<"ok">>)

DeleteTodo(authHeader, id) ==
    LET token == TokenOf(authHeader) IN
    IF Truthy(token)
    THEN IF jwt_verify_ok(token)
         THEN {FindOneAndDelete(ByIdOwned(id, token.userId))}
                 \cup After(<<"throws">>, {FindOneAndDelete(ById(id)), Thrown})
         ELSE {FindOneAndDelete(ById(id)), Thrown}
    ELSE {FindOneAndDelete(ById(id)), Thrown}

----------------------------------------------------------------------------
(* Credential store *)

User(id, email, password, name) ==
    [id |-> id, email |-> email, password |-> password, name |-> name]
Summary(u) == [id |-> u.id, email |-> u.email, name |-> u.name]

(* A findOne that compares the email as given *)
User_findOne_CaseSensitive(email) == {u \in users : u.email = email}

(* User.findOne({ email }): the schema's lowercase setter casts the query *)
User_findOne(email) == {u \in users : u.email = toLowerCase(email)}

(* !email, !password, !name: an absent key and the empty string are falsy *)
NoEmail(body) == ~Has(body, "email") \/ body.email = EmptyString
NoText(body, key) == ~Has(body, key) \/ body[key] = ""

AuthOutcome(resp, store, calls, continues) ==
    [resp |-> resp, users |-> store, calls |-> calls, continues |-> continues]
AuthThrown(message, calls) == AuthOutcome(Message(500, message), users, calls, FALSE)

(* POST /api/register up to the existence check *)
RegisterCheck(body) ==
    IF NoEmail(body) \/ NoText(body, "password") \/ NoText(body, "name")
    THEN {AuthOutcome(Message(400, "Email, password, and name are required"),
                      users, <<>>, FALSE)}
    ELSE {AuthThrown("Server error during registration", <<"throws">>),
          IF User_findOne(body.email) # {}
          THEN AuthOutcome(Message(400, "User already exists with this email"),
                           users, <<"ok">>, FALSE)
          ELSE AuthOutcome(Message(0, ""), users, <<"ok">>, TRUE)}

(* POST /api/register from bcrypt.hash on: user.save() throws on a store   *)
(* failure and on the unique index of the lowercased email                 *)
RegisterSave(body) ==
    LET user == User(UserIdOf(Cardinality(users) + 1), toLowerCase(body.email),
                     bcrypt_hash(body.password), body.name)
    IN  {AuthThrown("Server error during registration", <<"throws">>)}
          \cup IF \E u \in users : u.email = user.email
               THEN {}
               ELSE {AuthOutcome(Response(201, "User registered successfully", <<>>,
                                          jwt_sign(user.id, now), Summary(user)),
                                 users \cup {user}, <<"ok">>, FALSE)}

(* A login that tells an unknown email from a wrong password *)
Login_TellsUnknownEmail(body) ==
    IF NoEmail(body) \/ NoText(body, "password")
    THEN {AuthOutcome(Message(400, "Email and password are required"),
                      users, <<>>, FALSE)}
    ELSE {AuthThrown("Server error during login", <<"throws">>)}
          \cup {IF ~bcrypt_compare(body.password, user.password)
                THEN AuthOutcome(Message(400, "Invalid email or password"),
                                 users, <<"ok">>, FALSE)
                ELSE AuthOutcome(Response(200, "Login successful", <<>>,
                                          jwt_sign(user.id, now), Summary(user)),
                                 users, <<"ok">>, FALSE)
                : user \in User_findOne(body.email)}
          \cup IF User_findOne(body.email) = {}
               THEN {AuthOutcome(Message(400, "User not found"),
                                 users, <<"ok">>, FALSE)}
               ELSE {}

(* POST /api/login *)
Login(body) ==
    IF NoEmail(body) \/ NoText(body, "password")
    THEN {AuthOutcome(Message(400, "Email and password are required"),
                      users, <<>>, FALSE)}
    ELSE {AuthThrown("Server error during login", <<"throws">>)}
          \cup {IF ~bcrypt_compare(body.password, user.password)
                THEN AuthOutcome(Message(400, "Invalid email or password"),
                                 users, <<"ok">>, FALSE)
                ELSE AuthOutcome(Response(200, "Login successful", <<>>,
                                          jwt_sign(user.id, now), Summary(user)),
                                 users, <<"ok">>, FALSE)
                : user \in User_findOne(body.email)}
          \cup IF User_findOne(body.email) = {}
               THEN {AuthOutcome(Message(400, "Invalid email or password"),
                                 users, <<"ok">>, FALSE)}
               ELSE {}

----------------------------------------------------------------------------
(* The requests a client can send *)

RegisteredIds == {u.id : u \in users}

(* A token register or login has issued by now is signed for a registered  *)
(* user at a time up to now: login issues one at any time and changes no   *)
(* store. A client can also send anything that the server did not sign.    *)
Headers ==
    {NoHeader, Header(<<Bearer>>), Header(<<Bearer, EmptySegment>>),
     Header(<<Bearer, Garbage>>)}
      \cup {Header(<<Bearer, Forged(uid, now)>>) : uid \in RegisteredIds}
      \cup {Header(<<Bearer, jwt_sign(uid, t)>>) :
                uid \in RegisteredIds, t \in {x \in Clock : x <= now}}

TodoBodies ==
    {EmptyBody}
      \cup {[title |-> t] : t \in Titles \cup {""}}
      \cup {[completed |-> c] : c \in BOOLEAN}
      \cup {[title |-> t, completed |-> c] : t \in Titles \cup {""}, c \in BOOLEAN}

RegisterBodies ==
    {[email |-> e, password |-> p, name |-> n] :
        e \in Emails \cup {EmptyString}, p \in Passwords, n \in Names}
      \cup {[email |-> e, password |-> p] : e \in Emails, p \in Passwords}
      \cup {[email |-> e, name |-> n] : e \in Emails, n \in Names}
      \cup {[password |-> p, name |-> n] : p \in Passwords, n \in Names}

LoginBodies ==
    {[email |-> e, password |-> p] : e \in Emails, p \in Passwords \cup {""}}
      \cup {[email |-> e] : e \in Emails}
      \cup {[password |-> p] : p \in Passwords}

Request(op, authHeader, id, body) ==
    [op |-> op, authHeader |-> authHeader, id |-> id, body |-> body]
Idle == Request("idle", NoHeader, 0, EmptyBody)

TaskRequests ==
    {Request("list", h, 0, EmptyBody) : h \in Headers}
      \cup {Request("create", h, 0, b) : h \in Headers, b \in TodoBodies}
      \cup {Request("update", h, id, b) : h \in Headers, id \in TodoIds, b \in TodoBodies}
      \cup {Request("delete", h, id, EmptyBody) : h \in Headers, id \in TodoIds}

AuthRequests ==
    {Request("register", NoHeader, 0, b) : b \in RegisterBodies}
      \cup {Request("login", NoHeader, 0, b) : b \in LoginBodies}

(* express routing: the handler of a request *)
TaskOutcomes(r) ==
    CASE r.op = "list" -> GetTodos(r.authHeader)
      [] r.op = "create" -> CreateTodo(r.authHeader, r.body)
      [] r.op = "update" -> UpdateTodo(r.authHeader, r.id, r.body)
      [] r.op = "delete" -> DeleteTodo(r.authHeader, r.id)
      [] OTHER -> {}

----------------------------------------------------------------------------
(* The state machine *)

(* The credential store the task routes start from: two users have       *)
(* registered. The task routes never read or write the User collection,    *)
(* and a client that knows no token of Bob's behaves as if Bob were not    *)
(* registered.                                                             *)
Alice == User(UserIdOf(1), <<"a">>, bcrypt_hash("p"), "n")
Bob == User(UserIdOf(2), <<"b">>, bcrypt_hash("q"), "m")
Registered == {Alice, Bob}

Fresh ==
    /\ pending = {}
    /\ todos = {}
    /\ nextId = 1
    /\ now = 0
    /\ req = Idle

Tick ==
    /\ req = Idle
    /\ \E t \in Clock : t > now /\ now' = t
    /\ UNCHANGED <<users, pending, todos, nextId, req>>
    /\ UNCHANGED <<startup, authProvider, todoApp>>

(* A task request arrives *)
ReceiveTask ==
    /\ req = Idle
    /\ \E r \in TaskRequests :
        /\ r.op = "create" => nextId <= MaxTodoIds
        /\ req' = r
    /\ UNCHANGED <<users, pending, todos, nextId, now>>
    /\ UNCHANGED <<startup, authProvider, todoApp>>

ListRequest ==
    /\ req.op = "list"
    /\ \E o \in GetTodos(req.authHeader) : todos' = o.todos
    /\ req' = Idle
    /\ UNCHANGED <<users, pending, nextId, now>>
    /\ UNCHANGED <<startup, authProvider, todoApp>>

CreateRequest ==
    /\ req.op = "create"
    /\ \E o \in CreateTodo(req.authHeader, req.body) :
        /\ todos' = o.todos
        /\ nextId' = IF o.resp.status = 201 THEN nextId + 1 ELSE nextId
    /\ req' = Idle
    /\ UNCHANGED <<users, pending, now>>
    /\ UNCHANGED <<startup, authProvider, todoApp>>

UpdateRequest ==
    /\ req.op = "update"
    /\ \E o \in UpdateTodo(req.authHeader, req.id, req.body) : todos' = o.todos
    /\ req' = Idle
    /\ UNCHANGED <<users, pending, nextId, now>>
    /\ UNCHANGED <<startup, authProvider, todoApp>>

DeleteRequest ==
    /\ req.op = "delete"
    /\ \E o \in DeleteTodo(req.authHeader, req.id) : todos' = o.todos
    /\ req' = Idle
    /\ UNCHANGED <<users, pending, nextId, now>>
    /\ UNCHANGED <<startup, authProvider, todoApp>>

(* A register or login request arrives *)
ReceiveAuth ==
    /\ req = Idle
    /\ \E r \in AuthRequests :
        /\ r.op = "register" => r.body \notin pending /\ Cardinality(pending) < MaxInflight
        /\ req' = r
    /\ UNCHANGED <<users, pending, todos, nextId, now>>
    /\ UNCHANGED <<startup, authProvider, todoApp>>

(* The register handler up to its existence check; while it awaits        *)
(* bcrypt.hash other requests are served                                   *)
RegisterBegin ==
    /\ req.op = "register"
    /\ \E o \in RegisterCheck(req.body) :
        pending' = IF o.continues THEN pending \cup {req.body} ELSE pending
    /\ req' = Idle
    /\ UNCHANGED <<users, todos, nextId, now>>
    /\ UNCHANGED <<startup, authProvider, todoApp>>

RegisterEnd ==
    /\ req = Idle
    /\ \E body \in pending : \E o \in RegisterSave(body) :
        /\ users' = o.users
        /\ pending' = pending \ {body}
    /\ UNCHANGED <<todos, nextId, now, req>>
    /\ UNCHANGED <<startup, authProvider, todoApp>>

LoginRequest ==
    /\ req.op = "login"
    /\ \E o \in Login(req.body) : users' = o.users
    /\ req' = Idle
    /\ UNCHANGED <<pending, todos, nextId, now>>
    /\ UNCHANGED <<startup, authProvider, todoApp>>

----------------------------------------------------------------------------
(* Startup of the server process: connectDB() is called and not awaited,  *)
(* so app.listen runs while the connection is being made.  A step is what *)
(* runs between two awaits.                                                *)

NotExited == -1
Ports == {"unset", "8080"}
(* error.message of a failed mongoose.connect; without a uri it throws at once *)
ConnectErrors == {"ETIMEDOUT", "ECONNREFUSED", "Authentication failed"}
UriError == "uri must be a string"

(* process.env.PORT || 5000 *)
PORT == IF env.PORT = "unset" THEN "5000" ELSE env.PORT

(* A line of the console: its text and the value appended to it *)
Line(text, value) == <<text, value>>

(* The results of mongoose.connect(process.env.MONGODB_URI, ...) *)
Connect == IF env.MONGODB_URI THEN {"ok"} \cup ConnectErrors ELSE {UriError}

(* connectDB up to its first await *)
ConnectDBStart ==
    /\ connectDB = "init"
    /\ console' = console \o
            <<Line("Attempting to connect to MongoDB...", ""),
              Line("MONGODB_URI exists:", IF env.MONGODB_URI THEN "YES" ELSE "NO")>>
    /\ attempts' = <<"pending">>
    /\ connectDB' = "first"
    /\ UNCHANGED <<env, exitCode, listening>>
    /\ UNCHANGED <<server, authProvider, todoApp>>

(* The callback of app.listen *)
Listen ==
    /\ connectDB # "init"
    /\ exitCode = NotExited
    /\ ~listening
    /\ listening' = TRUE
    /\ console' = Append(console, Line("Server running on port", PORT))
    /\ UNCHANGED <<env, connectDB, attempts, exitCode>>
    /\ UNCHANGED <<server, authProvider, todoApp>>

(* A connectDB whose retry, when it fails, is followed by another retry *)
RetrySettled_RetriesAgain ==
    /\ connectDB = "retry"
    /\ \E r \in Connect :
        IF r = "ok"
        THEN /\ attempts' = [attempts EXCEPT ![Len(attempts)] = r]
             /\ console' = Append(console, Line("MongoDB connected on retry", ""))
             /\ connectDB' = "connected"
             /\ UNCHANGED exitCode
        ELSE /\ attempts' = Append([attempts EXCEPT ![Len(attempts)] = r], "pending")
             /\ console' = Append(console, Line("Retry failed:", r))
             /\ Len(attempts) < 4
             /\ UNCHANGED <<connectDB, exitCode>>
    /\ UNCHANGED <<env, listening>>
    /\ UNCHANGED <<server, authProvider, todoApp>>

(* The first mongoose.connect settles: connectDB returns, or its catch     *)
(* logs the error and calls mongoose.connect again                         *)
FirstSettled ==
    /\ connectDB = "first"
    /\ \E r \in Connect :
        IF r = "ok"
        THEN /\ attempts' = <<r>>
             /\ console' = Append(console, Line("MongoDB connected successfully", ""))
             /\ connectDB' = "connected"
        ELSE /\ attempts' = <<r, "pending">>
             /\ console' = console \o
                    <<Line("MongoDB connection error:", r),
                      Line("Retrying connection...", "")>>
             /\ connectDB' = "retry"
    /\ UNCHANGED <<env, exitCode, listening>>
    /\ UNCHANGED <<server, authProvider, todoApp>>

(* The second mongoose.connect settles: connectDB returns, or the inner    *)
(* catch logs the error and calls process.exit(1)                          *)
RetrySettled ==
    /\ connectDB = "retry"
    /\ \E r \in Connect :
        IF r = "ok"
        THEN /\ attempts' = [attempts EXCEPT ![Len(attempts)] = r]
             /\ console' = Append(console, Line("MongoDB connected on retry", ""))
             /\ connectDB' = "connected"
             /\ UNCHANGED exitCode
        ELSE /\ attempts' = [attempts EXCEPT ![Len(attempts)] = r]
             /\ console' = Append(console, Line("Retry failed:", r))
             /\ connectDB' = "exited"
             /\ exitCode' = 1
    /\ UNCHANGED <<env, listening>>
    /\ UNCHANGED <<server, authProvider, todoApp>>

(* The process before connectDB() is called *)
Starting ==
    /\ env \in [MONGODB_URI : BOOLEAN, PORT : Ports]
    /\ connectDB = "init"
    /\ attempts = <<>>
    /\ console = <<>>
    /\ exitCode = NotExited
    /\ listening = FALSE

(* The process that connected at its first attempt and listens *)
Started ==
    /\ env = [MONGODB_URI |-> TRUE, PORT |-> "unset"]
    /\ connectDB = "connected"
    /\ attempts = <<"ok">>
    /\ console = <<Line("Attempting to connect to MongoDB...", ""),
                   Line("MONGODB_URI exists:", "YES"),
                   Line("Server running on port", "5000"),
                   Line("MongoDB connected successfully", "")>>
    /\ exitCode = NotExited
    /\ listening = TRUE

(* TodoApp is not rendered *)
NoTodoApp ==
    /\ todosState = <<>>
    /\ errorState = ""
    /\ todosLoading = FALSE
    /\ todoCalls = {}
    /\ remarks = {}

(* No page of the client is open *)
NoBrowser ==
    /\ tokenState = Undefined
    /\ userState = NoUser
    /\ loadingState = TRUE
    /\ localStorage = Undefined
    /\ Authorization = NoHeader
    /\ tokenEffect = FALSE
    /\ authCalls = {}
    /\ NoTodoApp

----------------------------------------------------------------------------
(* The task routes, from a credential store that registration has filled *)
Init == users = Registered /\ Fresh /\ Started /\ NoBrowser

Next ==
    \/ Tick
    \/ ReceiveTask
    \/ ListRequest
    \/ CreateRequest
    \/ UpdateRequest
    \/ DeleteRequest

Spec == Init /\ [][Next]_vars

(* The account routes, from the empty credential store *)
InitAuth == users = {} /\ Fresh /\ Started /\ NoBrowser

NextAuth ==
    \/ Tick
    \/ ReceiveAuth
    \/ RegisterBegin
    \/ RegisterEnd
    \/ LoginRequest

SpecAuth == InitAuth /\ [][NextAuth]_vars

(* The startup of the process, before any request *)
InitStartup == users = {} /\ Fresh /\ Starting /\ NoBrowser

NextStartup ==
    \/ ConnectDBStart
    \/ Listen
    \/ FirstSettled
    \/ RetrySettled

SpecStartup == InitStartup /\ [][NextStartup]_vars

----------------------------------------------------------------------------
(* The client's AuthProvider.  null and undefined are both written        *)
(* Undefined: the code only tests them for truthiness.  The value of the   *)
(* Authorization header is written as the parsed header: `Bearer ${token}` *)
(* is Header(<<Bearer, token>>).                                           *)

(* axios resolves on a 2xx status and rejects on every other *)
Resolves(response) == response.status >= 200 /\ response.status < 300

(* isAuthenticated: !!token *)
isAuthenticated == Truthy(tokenState)

(* What the user types into the login and signup forms *)
LoginInputs ==
    {[email |-> <<"a">>, password |-> "p"],
     [email |-> <<"a">>, password |-> "q"],
     [email |-> <<"b">>, password |-> "q"]}
RegisterInputs ==
    {[name |-> "m", email |-> <<"b">>, password |-> "q"],
     [name |-> "n", email |-> <<"b">>, password |-> "p"],
     [name |-> "n", email |-> <<"A">>, password |-> "q"],
     [name |-> "", email |-> <<"b">>, password |-> "q"]}

(* A call of login or register awaiting its response; `abandoned` when   *)
(* the page that made it has been left, so that nothing runs on its       *)
(* response                                                                *)
AuthCall(op, body) ==
    [op |-> op, body |-> body, abandoned |-> FALSE,
     settled |-> FALSE, response |-> Message(0, "")]

(* The calls after the server has answered call c: the promise of c is     *)
(* settled, or c is gone if no page waits for it                           *)
Answered(c, response) ==
    (authCalls \ {c})
      \cup IF c.abandoned THEN {}
           ELSE {[c EXCEPT !.settled = TRUE, !.response = response]}

(* The page is loaded: useState(localStorage.getItem('token')), a new      *)
(* axios, and the two effects of the first render scheduled; the promises  *)
(* of the page before are gone, the requests it has sent are not           *)
Reload ==
    /\ tokenState' = localStorage
    /\ userState' = NoUser
    /\ loadingState' = TRUE
    /\ Authorization' = NoHeader
    /\ tokenEffect' = TRUE
    /\ authCalls' = {[c EXCEPT !.abandoned = TRUE] : c \in {d \in authCalls : ~d.settled}}
    /\ UNCHANGED localStorage
    /\ UNCHANGED <<server, startup, todoApp>>

(* An effect on [token] that sets and deletes the header only *)
TokenEffect_HeaderOnly ==
    /\ tokenEffect
    /\ tokenEffect' = FALSE
    /\ IF Truthy(tokenState)
       THEN /\ Authorization' = Header(<<Bearer, tokenState>>)
            /\ UNCHANGED localStorage
       ELSE /\ Authorization' = NoHeader
            /\ UNCHANGED localStorage
    /\ UNCHANGED <<tokenState, userState, loadingState, authCalls>>
    /\ UNCHANGED <<server, startup, todoApp>>

(* useEffect(..., [token]) *)
TokenEffect ==
    /\ tokenEffect
    /\ tokenEffect' = FALSE
    /\ IF Truthy(tokenState)
       THEN /\ Authorization' = Header(<<Bearer, tokenState>>)
            /\ localStorage' = tokenState
       ELSE /\ Authorization' = NoHeader
            /\ localStorage' = Undefined
    /\ UNCHANGED <<tokenState, userState, loadingState, authCalls>>
    /\ UNCHANGED <<server, startup, todoApp>>

(* checkAuth, the effect of the first render that runs after the one on [token] *)
checkAuth ==
    /\ loadingState
    /\ ~tokenEffect
    /\ IF Truthy(localStorage)
       THEN /\ tokenState' = localStorage
            /\ tokenEffect' = (localStorage # tokenState)
       ELSE UNCHANGED <<tokenState, tokenEffect>>
    /\ loadingState' = FALSE
    /\ UNCHANGED <<userState, localStorage, Authorization, authCalls>>
    /\ UNCHANGED <<server, startup, todoApp>>

(* login(email, password) up to the await *)
login ==
    /\ ~loadingState
    /\ Cardinality(authCalls) < MaxInflight
    /\ \E body \in LoginInputs : authCalls' = authCalls \cup {AuthCall("login", body)}
    /\ UNCHANGED <<tokenState, userState, loadingState, localStorage, Authorization, tokenEffect>>
    /\ UNCHANGED <<server, startup, todoApp>>

(* register(name, email, password) up to the await *)
register ==
    /\ ~loadingState
    /\ Cardinality(authCalls) < MaxInflight
    /\ \E body \in RegisterInputs :
        /\ \A c \in authCalls : c.op = "register" => c.body # body
        /\ authCalls' = authCalls \cup {AuthCall("register", body)}
    /\ UNCHANGED <<tokenState, userState, loadingState, localStorage, Authorization, tokenEffect>>
    /\ UNCHANGED <<server, startup, todoApp>>

(* The server handles the request of a login or register call: it answers, *)
(* or, in register, passes the existence check and awaits bcrypt.hash      *)
RespondAuth ==
    /\ \E c \in authCalls :
        /\ ~c.settled
        /\ c.body \notin pending
        /\ IF c.op = "login"
           THEN \E o \in Login(c.body) :
                    /\ authCalls' = Answered(c, o.resp)
                    /\ UNCHANGED pending
           ELSE \E o \in RegisterCheck(c.body) :
                    IF o.continues
                    THEN /\ pending' = pending \cup {c.body}
                         /\ UNCHANGED authCalls
                    ELSE /\ authCalls' = Answered(c, o.resp)
                         /\ UNCHANGED pending
    /\ UNCHANGED <<users, todos, nextId, now, req>>
    /\ UNCHANGED <<tokenState, userState, loadingState, localStorage, Authorization, tokenEffect>>
    /\ UNCHANGED <<startup, todoApp>>

(* The server runs register from bcrypt.hash on, for a request past its    *)
(* existence check, and answers                                            *)
RespondRegister ==
    /\ \E c \in authCalls :
        /\ c.op = "register" /\ ~c.settled
        /\ c.body \in pending
        /\ \E o \in RegisterSave(c.body) :
            /\ users' = o.users
            /\ authCalls' = Answered(c, o.resp)
        /\ pending' = pending \ {c.body}
    /\ UNCHANGED <<todos, nextId, now, req>>
    /\ UNCHANGED <<tokenState, userState, loadingState, localStorage, Authorization, tokenEffect>>
    /\ UNCHANGED <<startup, todoApp>>

(* What login and register do after the await: setToken, setUser, or the catch *)
Settled(op) ==
    /\ \E c \in authCalls :
        /\ c.op = op /\ c.settled
        /\ authCalls' = authCalls \ {c}
        /\ IF Resolves(c.response)
           THEN /\ tokenState' = c.response.token
                /\ tokenEffect' = (tokenEffect \/ c.response.token # tokenState)
                /\ userState' = c.response.user
           ELSE UNCHANGED <<tokenState, tokenEffect, userState>>
    /\ UNCHANGED <<loadingState, localStorage, Authorization>>
    /\ UNCHANGED <<server, startup, todoApp>>

loginSettled == Settled("login")
registerSettled == Settled("register")

(* logout() *)
logout ==
    /\ ~loadingState
    /\ tokenState' = Undefined
    /\ tokenEffect' = (tokenEffect \/ tokenState # Undefined)
    /\ userState' = NoUser
    /\ localStorage' = Undefined
    /\ Authorization' = NoHeader
    /\ UNCHANGED <<loadingState, authCalls>>
    /\ UNCHANGED <<server, startup, todoApp>>

(* The page is opened for the first time: nothing is in localStorage *)
Opened ==
    /\ tokenState = Undefined
    /\ userState = NoUser
    /\ loadingState = TRUE
    /\ localStorage = Undefined
    /\ Authorization = NoHeader
    /\ tokenEffect = TRUE
    /\ authCalls = {}

(* AuthProvider with the server, on which Alice has registered *)
InitAuthProvider == users = {Alice} /\ Fresh /\ Started /\ Opened /\ NoTodoApp

NextAuthProvider ==
    \/ Tick
    \/ Reload
    \/ TokenEffect
    \/ checkAuth
    \/ login
    \/ register
    \/ RespondAuth
    \/ RespondRegister
    \/ loginSettled
    \/ registerSettled
    \/ logout

SpecAuthProvider == InitAuthProvider /\ [][NextAuthProvider]_vars

----------------------------------------------------------------------------
(* The client's TodoApp component.  A handler runs up to its await of the  *)
(* axios call, and runs on when the call settles; the `todos` it reads     *)
(* then is the one of the render in which the handler was created, kept in *)
(* the call as `closure`.  axios puts its default Authorization header of  *)
(* that moment into the request when the call is made.                     *)

Call(n, op, id, body, closure) ==
    [n |-> n, op |-> op, id |-> id, body |-> body, closure |-> closure,
     authHeader |-> Authorization, settled |-> FALSE, response |-> Message(0, "")]

(* A number no call awaiting its response has *)
FreshCall == CHOOSE n \in 1..(Cardinality(todoCalls) + 1) : \A c \in todoCalls : c.n # n

(* The task records on the page: the list is rendered under !loading *)
Shown == IF todosLoading THEN {} ELSE {todosState[i] : i \in DOMAIN todosState}

(* The request axios sends for a call *)
RequestOf(c) ==
    Request(CASE c.op = "fetch" -> "list"
              [] c.op = "add" -> "create"
              [] c.op = "toggle" -> "update"
              [] OTHER -> "delete",
            c.authHeader, c.id, c.body)

(* The adds on their way to the server *)
AddsSent == {c \in todoCalls : c.op = "add" /\ ~c.settled}

(* useEffect(() => { fetchTodos() }, []) up to the await: setLoading(true) *)
Mounted ==
    /\ todosState = <<>>
    /\ errorState = ""
    /\ todosLoading = TRUE
    /\ todoCalls = {Call(1, "fetch", 0, EmptyBody, <<>>)}
    /\ remarks = {}

(* addTodo up to the await: the input holds a title *)
addTodo ==
    /\ Cardinality(todoCalls) < MaxInflight
    /\ nextId + Cardinality(AddsSent) <= MaxTodoIds
    /\ \E title \in Titles :
        todoCalls' = todoCalls \cup
            {Call(FreshCall, "add", 0, [title |-> title, completed |-> FALSE], todosState)}
    /\ remarks' = IF todosLoading
                  THEN remarks \cup {"added while loading"} ELSE remarks
    /\ UNCHANGED <<todosState, errorState, todosLoading>>
    /\ UNCHANGED <<server, startup, authProvider>>

(* toggleTodo(todo._id, todo.completed) of a task on the page, up to the await *)
toggleTodo ==
    /\ Cardinality(todoCalls) < MaxInflight
    /\ \E todo \in Shown :
        todoCalls' = todoCalls \cup
            {Call(FreshCall, "toggle", todo.id, [completed |-> ~todo.completed], todosState)}
    /\ UNCHANGED <<todosState, errorState, todosLoading, remarks>>
    /\ UNCHANGED <<server, startup, authProvider>>

(* deleteTodo(todo._id) of a task on the page, up to the await *)
deleteTodo ==
    /\ Cardinality(todoCalls) < MaxInflight
    /\ \E todo \in Shown :
        todoCalls' = todoCalls \cup
            {Call(FreshCall, "delete", todo.id, EmptyBody, todosState)}
    /\ UNCHANGED <<todosState, errorState, todosLoading, remarks>>
    /\ UNCHANGED <<server, startup, authProvider>>

(* The server handles the request of a call and answers it *)
Respond ==
    /\ \E c \in todoCalls : \E o \in TaskOutcomes(RequestOf(c)) :
        /\ ~c.settled
        /\ todos' = o.todos
        /\ nextId' = IF o.resp.status = 201 THEN nextId + 1 ELSE nextId
        /\ todoCalls' = (todoCalls \ {c})
                \cup {[c EXCEPT !.settled = TRUE, !.response = o.resp]}
    /\ UNCHANGED <<users, pending, now, req>>
    /\ UNCHANGED <<todosState, errorState, todosLoading, remarks>>
    /\ UNCHANGED <<startup, authProvider>>

(* fetchTodos after the await; finally: setLoading(false) *)
fetchTodosSettled ==
    /\ \E c \in todoCalls :
        /\ c.op = "fetch" /\ c.settled
        /\ todoCalls' = todoCalls \ {c}
        /\ todosLoading' = FALSE
        /\ IF Resolves(c.response)
           THEN /\ todosState' = c.response.docs
                /\ errorState' = ""
                /\ UNCHANGED remarks
           ELSE /\ errorState' = "Failed to load todos. Make sure your backend is running."
                /\ remarks' = remarks \cup {"failed"}
                /\ UNCHANGED todosState
    /\ UNCHANGED <<server, startup, authProvider>>

(* addTodo after the await: setTodos([...todos, response.data]) *)
addTodoSettled ==
    /\ \E c \in todoCalls :
        /\ c.op = "add" /\ c.settled
        /\ todoCalls' = todoCalls \ {c}
        /\ IF Resolves(c.response)
           THEN /\ todosState' = c.closure \o c.response.docs
                /\ errorState' = ""
                /\ UNCHANGED remarks
           ELSE /\ errorState' = "Failed to add todo"
                /\ remarks' = remarks \cup {"failed"}
                /\ UNCHANGED todosState
    /\ UNCHANGED todosLoading
    /\ UNCHANGED <<server, startup, authProvider>>

(* toggleTodo after the await: setTodos(todos.map(...)) *)
toggleTodoSettled ==
    /\ \E c \in todoCalls :
        /\ c.op = "toggle" /\ c.settled
        /\ todoCalls' = todoCalls \ {c}
        /\ IF Resolves(c.response)
           THEN /\ todosState' = [i \in DOMAIN c.closure |->
                                    IF c.closure[i].id = c.id
                                    THEN c.response.docs[1] ELSE c.closure[i]]
                /\ UNCHANGED <<errorState, remarks>>
           ELSE /\ errorState' = "Failed to update todo"
                /\ remarks' = remarks \cup {"failed"}
                /\ UNCHANGED todosState
    /\ UNCHANGED todosLoading
    /\ UNCHANGED <<server, startup, authProvider>>

(* deleteTodo after the await: setTodos(todos.filter(...)) *)
deleteTodoSettled ==
    /\ \E c \in todoCalls :
        /\ c.op = "delete" /\ c.settled
        /\ todoCalls' = todoCalls \ {c}
        /\ IF Resolves(c.response)
           THEN /\ todosState' = SelectSeq(c.closure, LAMBDA todo : todo.id # c.id)
                /\ UNCHANGED <<errorState, remarks>>
           ELSE /\ errorState' = "Failed to delete todo"
                /\ remarks' = remarks \cup {"failed"}
                /\ UNCHANGED todosState
    /\ UNCHANGED todosLoading
    /\ UNCHANGED <<server, startup, authProvider>>

(* AuthProvider after Alice has logged in and the effect on [token] has run *)
LoggedIn ==
    /\ tokenState = jwt_sign(Alice.id, 0)
    /\ userState = Summary(Alice)
    /\ loadingState = FALSE
    /\ localStorage = jwt_sign(Alice.id, 0)
    /\ Authorization = Header(<<Bearer, jwt_sign(Alice.id, 0)>>)
    /\ tokenEffect = FALSE
    /\ authCalls = {}

(* The page /todos of a logged-in user, with the server *)
InitTodoApp == users = Registered /\ Fresh /\ Started /\ LoggedIn /\ Mounted

NextTodoApp ==
    \/ addTodo
    \/ toggleTodo
    \/ deleteTodo
    \/ Respond
    \/ fetchTodosSettled
    \/ addTodoSettled
    \/ toggleTodoSettled
    \/ deleteTodoSettled

SpecTodoApp == InitTodoApp /\ [][NextTodoApp]_vars

----------------------------------------------------------------------------
(* What the claims speak of.  The token states are written here from the   *)
(* token's own fields, not through the handlers' operators.                *)

TaskOps == {"list", "create", "update", "delete"}

(* No Authorization header, or a header with no token segment *)
NoTokenSegment(h) == ~h.present \/ Len(h.segs) < 2
CarriesNoToken(h) == NoTokenSegment(h) \/ h.segs[2].kind = "empty"

(* The header carries a token the server signed for uid that has not expired *)
CarriesValidToken(h, uid) ==
    /\ ~CarriesNoToken(h)
    /\ h.segs[2].kind = "signed"
    /\ h.segs[2].userId = uid
    /\ now < h.segs[2].iat + TokenTTL

(* The header carries a token that is malformed, wrongly signed or expired *)
CarriesInvalidToken(h) ==
    /\ ~CarriesNoToken(h)
    /\ \/ h.segs[2].kind # "signed"
       \/ now >= h.segs[2].iat + TokenTTL

(* The store answered: the request was not ended by a store failure (500) *)
Served(o) == o.resp.status # 500
DocSet(o) == {o.resp.docs[i] : i \in DOMAIN o.resp.docs}

(* C1: every task that GET /api/todos returns is owned by the caller: no   *)
(* response contains a task whose owner is a user other than the one the   *)
(* request's token verifies to.                                            *)
C1_ListShowsOnlyOwnTasks ==
    req.op = "list" =>
        \A o \in GetTodos(req.authHeader) : \A t \in DocSet(o) :
            t.userId # Null => CarriesValidToken(req.authHeader, t.userId)

(* C2: on a task owned by user A, an update or delete with another user    *)
(* B's valid token is answered 404 and leaves the store unchanged, and     *)
(* one with A's valid token is answered 200 (a request the store answers). *)
C2_OtherUsersTokenCannotModify ==
    req.op \in {"update", "delete"} =>
        \A t \in todos : (t.id = req.id /\ t.userId # Null) =>
            \A o \in TaskOutcomes(req) :
                /\ CarriesValidToken(req.authHeader, t.userId) =>
                        (Served(o) => o.resp.status = 200)
                /\ (\E b \in RegisteredIds \ {t.userId} :
                        CarriesValidToken(req.authHeader, b)) =>
                        /\ o.todos = todos
                        /\ Served(o) => o.resp.status = 404

(* C3: a GET /api/todos with a token that verifies to userId returns       *)
(* exactly the stored tasks whose owner is userId.                         *)
C3_ValidTokenListsExactlyOwn ==
    req.op = "list" =>
        \A uid \in RegisteredIds : CarriesValidToken(req.authHeader, uid) =>
            \A o \in GetTodos(req.authHeader) : Served(o) =>
                /\ DocSet(o) = {t \in todos : t.userId = uid}
                /\ Len(o.resp.docs) = Cardinality(DocSet(o))

(* C4: a GET /api/todos with no Authorization header, or with a header     *)
(* that has no token segment, returns every task in the store, owned by    *)
(* any user or unowned.                                                    *)
C4_NoTokenListsAll ==
    (req.op = "list" /\ NoTokenSegment(req.authHeader)) =>
        /\ \E o \in GetTodos(req.authHeader) : Served(o)
        /\ \A o \in GetTodos(req.authHeader) : Served(o) =>
            /\ o.resp.status = 200
            /\ DocSet(o) = todos
            /\ Len(o.resp.docs) = Cardinality(todos)
            /\ o.todos = todos

C4_Witness ==
    /\ req.op = "list"
    /\ req.authHeader = Header(<<Bearer>>)
    /\ \E t, u \in todos : t.userId = Null /\ u.userId # Null
    /\ \E o \in GetTodos(req.authHeader) : DocSet(o) = todos

(* C5: for list, create, update and delete, a request with a token that    *)
(* fails verification has the same responses and leaves the same stores as *)
(* the same request with no token; no task route answers 401 or 403.       *)
C5_InvalidTokenAsNoToken ==
    req.op \in TaskOps =>
        /\ \A o \in TaskOutcomes(req) : o.resp.status \notin {401, 403}
        /\ CarriesInvalidToken(req.authHeader) =>
                TaskOutcomes(req) = TaskOutcomes([req EXCEPT !.authHeader = NoHeader])

C5_Witness ==
    /\ req.op = "update"
    /\ TokenOf(req.authHeader).kind = "forged"
    /\ \E t \in todos : t.id = req.id /\ t.userId \notin {Null, TokenOf(req.authHeader).userId}
    /\ \E o \in TaskOutcomes(req) : o.resp.status = 200 /\ o.todos # todos

(* C6: a successful create stores a new task owned by the caller when the  *)
(* token verifies and unowned when there is no token or the token fails    *)
(* verification; completed is false when the request does not give it.     *)
C6_CreateSetsOwner ==
    req.op = "create" =>
        \A o \in CreateTodo(req.authHeader, req.body) : o.resp.status = 201 =>
            /\ Len(o.resp.docs) = 1
            /\ LET d == o.resp.docs[1] IN
                /\ d \notin todos
                /\ \A t \in todos : t.id # d.id
                /\ o.todos = todos \cup {d}
                /\ \A uid \in RegisteredIds :
                        CarriesValidToken(req.authHeader, uid) => d.userId = uid
                /\ (CarriesNoToken(req.authHeader) \/ CarriesInvalidToken(req.authHeader))
                        => d.userId = Null
                /\ ~Has(req.body, "completed") => d.completed = FALSE

C6_Witness ==
    /\ req.op = "create"
    /\ ~Has(req.body, "completed")
    /\ \E uid \in RegisteredIds : CarriesValidToken(req.authHeader, uid)
    /\ \E t \in todos : t.userId = Null
    /\ \E o \in CreateTodo(req.authHeader, req.body) :
            o.resp.status = 201 /\ o.resp.docs[1].userId # Null

(* C7: a stored task with no owner can be updated and deleted by every     *)
(* caller (no token, invalid token, any user's valid token): the answer is *)
(* 200; and no request gives an existing task another owner.               *)
C7_UnownedTaskOpenToAll ==
    /\ req.op \in TaskOps =>
        \A o \in TaskOutcomes(req) : \A t \in todos : \A u \in o.todos :
            u.id = t.id => u.userId = t.userId
    /\ req.op \in {"update", "delete"} =>
        \A t \in todos : (t.id = req.id /\ t.userId = Null) =>
            /\ \E o \in TaskOutcomes(req) : Served(o)
            /\ \A o \in TaskOutcomes(req) : Served(o) => o.resp.status = 200

C7_Witness ==
    /\ req.op = "delete"
    /\ \E uid \in RegisteredIds : CarriesValidToken(req.authHeader, uid)
    /\ \E t \in todos : t.id = req.id /\ t.userId = Null
    /\ \E o \in TaskOutcomes(req) : o.resp.status = 200 /\ o.todos # todos

(* C8: a successful update changes only the fields among title and         *)
(* completed that the request gives; the task's id, owner and creation     *)
(* time and every other task are unchanged.                                *)
C8_UpdateChangesOnlyGivenFields ==
    req.op = "update" =>
        \A o \in UpdateTodo(req.authHeader, req.id, req.body) : o.resp.status = 200 =>
            /\ Len(o.resp.docs) = 1
            /\ \E t \in todos :
                LET u == o.resp.docs[1] IN
                /\ t.id = req.id
                /\ u.id = t.id
                /\ u.userId = t.userId
                /\ u.createdAt = t.createdAt
                /\ u.title = IF Has(req.body, "title") THEN req.body.title ELSE t.title
                /\ u.completed = IF Has(req.body, "completed")
                                 THEN req.body.completed ELSE t.completed
                /\ o.todos = (todos \ {t}) \cup {u}

C8_Witness ==
    /\ req.op = "update"
    /\ req.body = [completed |-> TRUE]
    /\ \E t, other \in todos :
        /\ t.id = req.id /\ other.id # req.id
        /\ t.title = "x" /\ ~t.completed
    /\ \E o \in UpdateTodo(req.authHeader, req.id, req.body) :
            o.resp.status = 200 /\ o.todos # todos

(* C9: once an email is registered, a register request whose email equals  *)
(* it case-insensitively is answered the 400 conflict whatever its name    *)
(* and password and creates no identity; the store holds one identity per  *)
(* email.                                                                  *)
SameEmail(e, f) == toLowerCase(e) = toLowerCase(f)
FullRegisterBody(b) ==
    /\ Has(b, "email") /\ Has(b, "password") /\ Has(b, "name")
    /\ b.email # EmptyString

C9_DuplicateEmailRejected ==
    /\ \A u, v \in users : SameEmail(u.email, v.email) => u = v
    /\ (req.op = "register" /\ FullRegisterBody(req.body)) =>
        ((\E u \in users : SameEmail(u.email, req.body.email)) =>
            /\ \E o \in RegisterCheck(req.body) : Served(o)
            /\ \A o \in RegisterCheck(req.body) : Served(o) =>
                /\ o.resp = Message(400, "User already exists with this email")
                /\ ~o.continues
                /\ o.users = users)

C9_Witness ==
    /\ req.op = "register"
    /\ FullRegisterBody(req.body)
    /\ req.body.email = <<"A">>
    /\ \E u \in users :
        /\ u.email = <<"a">>
        /\ u.name # req.body.name
        /\ u.password # bcrypt_hash(req.body.password)

(* C10: a login for an email with no identity and a login for a registered *)
(* email with a wrong password get the same response (400, same message);  *)
(* neither issues a token or changes a store.                              *)
FullLoginBody(b) == Has(b, "email") /\ Has(b, "password") /\ b.password # ""
UnknownEmail(b) == \A u \in users : ~SameEmail(u.email, b.email)
WrongPassword(b) ==
    \E u \in users : SameEmail(u.email, b.email) /\ u.password # bcrypt_hash(b.password)
Responses(S) == {o.resp : o \in S}

C10_LoginFailuresIndistinguishable ==
    (req.op = "login" /\ FullLoginBody(req.body) /\ WrongPassword(req.body)) =>
        /\ \A o \in Login(req.body) :
            /\ o.users = users
            /\ o.resp.token = Undefined
            /\ Served(o) => o.resp.status = 400
        /\ \E o \in Login(req.body) : Served(o)
        /\ \A b \in LoginBodies : (FullLoginBody(b) /\ UnknownEmail(b)) =>
            /\ Responses(Login(b)) = Responses(Login(req.body))
            /\ \A o \in Login(b) : o.users = users

C10_Witness ==
    /\ req.op = "login"
    /\ FullLoginBody(req.body)
    /\ WrongPassword(req.body)
    /\ \E b \in LoginBodies : FullLoginBody(b) /\ UnknownEmail(b)

(* C11: a token that register or login issues for user u carries u's id,   *)
(* verifies at every instant before 24 hours after its issue and fails at  *)
(* every instant from then on; a task request that carries an expired      *)
(* token is handled as the same request without a token, and one that      *)
(* carries an unexpired token is handled for u.                            *)
Instants == 0..(2 * TokenTTL)

(* The responses of register and login that issue a token in this state *)
Issued ==
    {o \in UNION {RegisterSave(b) : b \in pending} : o.resp.status = 201}
      \cup (IF req.op = "login"
            THEN {o \in Login(req.body) : o.resp.status = 200}
            ELSE {})

(* One request to each task route with the header h *)
TaskRequestsWith(h) ==
    {Request("list", h, 0, EmptyBody),
     Request("create", h, 0, [title |-> "x"]),
     Request("update", h, 1, [completed |-> TRUE]),
     Request("delete", h, 1, EmptyBody)}

C11_TokenValidFor24Hours ==
    /\ \A o \in Issued :
        /\ \E u \in o.users : u.id = o.resp.token.userId /\ Summary(u) = o.resp.user
        /\ \A t \in Instants : t >= now =>
                (jwt_verify_at(o.resp.token, t) <=> t < now + TokenTTL)
    /\ \A u \in users : \A t \in Clock : t <= now =>
        LET h == Header(<<Bearer, jwt_sign(u.id, t)>>) IN
        IF now >= t + TokenTTL
        THEN \A r \in TaskRequestsWith(h) :
                TaskOutcomes(r) = TaskOutcomes([r EXCEPT !.authHeader = NoHeader])
        ELSE CreatorOf(h) = u.id

C11_Witness ==
    /\ now = TokenTTL
    /\ \E o \in Issued : o.resp.status = 200
    /\ \E u \in users :
        /\ ~jwt_verify_at(jwt_sign(u.id, 0), now)
        /\ jwt_verify_at(jwt_sign(u.id, now), now)
        /\ CreatorOf(Header(<<Bearer, jwt_sign(u.id, 0)>>)) = Null

(* C12: for a caller with a valid token, an update or delete of a task     *)
(* that another user owns gets the same response (404, same body) as the   *)
(* same request for an id no task has.                                     *)
MissingId == MaxTodoIds + 1

OwnedByAnother(r) ==
    \E t \in todos : \E b \in RegisteredIds :
        /\ t.id = r.id
        /\ t.userId \notin {Null, b}
        /\ CarriesValidToken(r.authHeader, b)

C12_NotOwnedLooksMissing ==
    (req.op \in {"update", "delete"} /\ OwnedByAnother(req)) =>
        /\ \A o \in TaskOutcomes(req) :
                Served(o) => o.resp = Message(404, "Todo not found")
        /\ Responses(TaskOutcomes(req))
                = Responses(TaskOutcomes([req EXCEPT !.id = MissingId]))

(* C13: GET /api/todos lists the tasks newest first whatever the token:    *)
(* of two listed tasks, the one with the later creation time comes         *)
(* earlier in the list.                                                    *)
C13_ListNewestFirst ==
    req.op = "list" =>
        \A o \in GetTodos(req.authHeader) : o.resp.status = 200 =>
            \A i, j \in DOMAIN o.resp.docs :
                o.resp.docs[i].createdAt > o.resp.docs[j].createdAt => i < j

C13_Witness ==
    /\ req.op = "list"
    /\ \E o \in GetTodos(req.authHeader) :
        /\ o.resp.status = 200
        /\ Len(o.resp.docs) = 2
        /\ o.resp.docs[1].createdAt > o.resp.docs[2].createdAt
        /\ o.resp.docs[1].id > o.resp.docs[2].id

(* C14: a list, update or delete request makes at most one store call,    *)
(* whatever the token; when that call throws the answer is 500, no other   *)
(* store call is made and the store is unchanged.                          *)
C14_SingleStoreCall ==
    req.op \in {"list", "update", "delete"} =>
        \A o \in TaskOutcomes(req) :
            /\ Len(o.calls) <= 1
            /\ (Len(o.calls) >= 1 /\ o.calls[1] = "throws") =>
                    /\ o.resp.status = 500
                    /\ o.todos = todos

(* C15: every stored task has a non-empty title, after any sequence of     *)
(* create, update and delete requests.                                     *)
C15_TitleNeverEmpty == \A t \in todos : t.title # ""

(* C16: a register request that passed its existence check and finds, at   *)
(* its save, that a concurrent register has inserted an identity with its  *)
(* email is answered the 400 conflict, not 500.                            *)
C16_LostRaceIsConflict ==
    \A body \in pending :
        (\E u \in users : SameEmail(u.email, body.email)) =>
            /\ \E o \in RegisterSave(body) : Served(o)
            /\ \A o \in RegisterSave(body) : Served(o) =>
                    o.resp = Message(400, "User already exists with this email")

(* C17: a request answered 400 or 404 leaves the store its route works on  *)
(* as it was: register and login with a missing field or bad credentials   *)
(* and register with a taken email write no identity (and save none        *)
(* later); create without a title, and update or delete of a missing or    *)
(* not-owned task, write no task.  The account routes make no call on the  *)
(* task store and the task routes none on the credential store.            *)
Refused(o) == o.resp.status \in {400, 404}

(* Logins for an email nobody registered *)
StrangerLogins == {[email |-> <<"c">>, password |-> p] : p \in Passwords}

C17_RefusedRequestWritesNothing ==
    /\ req.op \in TaskOps =>
        \A o \in TaskOutcomes(req) : Refused(o) => o.todos = todos
    /\ req = Idle =>
        \* the account request that arrives next, whichever it is
        /\ \A b \in RegisterBodies : \A o \in RegisterCheck(b) :
                Refused(o) => (o.users = users /\ ~o.continues)
        /\ \A b \in LoginBodies \cup StrangerLogins : \A o \in Login(b) :
                Refused(o) => o.users = users

C17_Witness ==
    /\ req = Idle
    /\ \E t \in todos : t.userId # Null
    /\ \E r \in TaskRequests :
        /\ r.op = "delete"
        /\ OwnedByAnother(r)
        /\ \E o \in TaskOutcomes(r) : o.resp.status = 404 /\ o.calls = <<"ok">>
        /\ \E o \in TaskOutcomes(r) : o.resp.status = 200 /\ o.todos # todos
    /\ \E b \in RegisterBodies : \E o \in RegisterCheck(b) :
            o.resp = Message(400, "User already exists with this email")
    /\ \E b \in StrangerLogins : \E o \in Login(b) : o.resp.status = 400

(* C18: at startup mongoose.connect is called at most twice; a second call *)
(* is made exactly when the first has failed; the process exits, with code *)
(* 1, exactly when both calls have failed.                                 *)
Failed(r) == r \notin {"ok", "pending"}

C18_ConnectAtMostTwice ==
    /\ Len(attempts) <= 2
    /\ exitCode \in {NotExited, 1}
    /\ Len(attempts) = 2 <=> (Len(attempts) >= 1 /\ Failed(attempts[1]))
    /\ exitCode = 1 <=> (Len(attempts) = 2 /\ Failed(attempts[1]) /\ Failed(attempts[2]))
    /\ connectDB = "connected" <=> (attempts # <<>> /\ attempts[Len(attempts)] = "ok")

C18_Witness ==
    /\ exitCode = 1
    /\ env.MONGODB_URI
    /\ listening
    /\ Len(attempts) = 2
    /\ attempts[1] # attempts[2]

(* C19: in TodoApp, when the responses of the add, toggle and delete calls  *)
(* made after the list had loaded have all been handled and none has       *)
(* failed, the page shows exactly the tasks that were added and not        *)
(* deleted, each once and with its latest completed value: the tasks the   *)
(* server holds.                                                           *)
C19_PageShowsStoredTasks ==
    (todoCalls = {} /\ remarks = {}) =>
        /\ Shown = todos
        /\ Len(todosState) = Cardinality(Shown)

(* C20: in AuthProvider, whenever the effect on [token] has run, the        *)
(* default Authorization header is present exactly when the token state is *)
(* set, and is then `Bearer` and that token; localStorage holds that token *)
(* exactly then; isAuthenticated is true exactly then.  Handling a failed  *)
(* login or register changes none of them, and logout clears them all.     *)
TokenInStorage == Truthy(localStorage)
HeaderPresent == Authorization # NoHeader

AuthConsistent ==
    /\ HeaderPresent <=> Truthy(tokenState)
    /\ HeaderPresent => Authorization = Header(<<Bearer, tokenState>>)
    /\ TokenInStorage <=> Truthy(tokenState)
    /\ TokenInStorage => localStorage = tokenState
    /\ isAuthenticated <=> HeaderPresent

(* A step that handles the rejected promise of a login or register call:  *)
(* the call is gone and the page has not been loaded anew                  *)
FailureHandled ==
    /\ ~loadingState'
    /\ \E c \in authCalls :
        c.settled /\ ~Resolves(c.response) /\ authCalls' = authCalls \ {c}

(* A step of logout: the only one that clears the token state of a loaded page *)
LoggedOut == ~loadingState /\ Truthy(tokenState) /\ ~Truthy(tokenState')

C20_AuthStateConsistent ==
    /\ [](~tokenEffect => AuthConsistent)
    /\ [][FailureHandled =>
            UNCHANGED <<tokenState, userState, localStorage, Authorization, tokenEffect>>]_vars
    /\ [][LoggedOut =>
            (userState' = NoUser /\ ~TokenInStorage' /\ ~HeaderPresent')]_vars

C20_Witness ==
    /\ ~tokenEffect
    /\ ~loadingState
    /\ isAuthenticated
    /\ now = TokenTTL
    /\ tokenState = jwt_sign(UserIdOf(2), TokenTTL)
    /\ Authorization = Header(<<Bearer, tokenState>>)
    /\ localStorage = tokenState
    /\ \E c \in authCalls : c.settled /\ c.response.status = 400

====
